---- MODULE Spec2Model ----
(***************************************************************************)
(* A model of test2doc/misc.py: the markdown table-of-contents generator   *)
(* (add_toc_to_markdown and _generate_anchor_name) and rename_file.         *)
(*                                                                         *)
(* A Python str is modelled as a sequence of one-character strings, so     *)
(* that substring search, str.replace and the regular expressions of the   *)
(* source act on characters as they do in the source.                      *)
(***************************************************************************)
EXTENDS Integers, Sequences, FiniteSets, TLC

VARIABLES
    input,            \* add_toc_to_markdown: the md_text argument as passed
    md_text,          \* the (progressively patched) local md_text
    existing_anchors, \* the Counter of line 96
    headers,          \* the list of (header_level, header_text) of line 99
    toc,              \* the list of TOC lines
    anchors,          \* the registry handed to _generate_anchor_name
    names,            \* history: the anchor_name of each processed header
    hidx,             \* number of headers processed so far
    result,           \* the returned md_text_with_toc
    pc,               \* position in add_toc_to_markdown
    registry,         \* _generate_anchor_name used alone: the mapping
    calls,            \* history: <<anchor_base, returned name>> per call
    files,            \* rename_file: the collection passed as `file`
    dry_run,          \* rename_file: keyword argument
    verbose,          \* rename_file: keyword argument
    file,             \* rename_file: the local variable `file`
    fidx,             \* rename_file: elements of the for loop consumed
    fs,               \* the file system: the set of existing paths
    renamer_calls,    \* history: arguments renamer_function was called with
    os_renames,       \* history: <<src, dst>> of each os.rename call
    printed,          \* history: <<file, new_name>> of each print
    raised,           \* the exception that ended rename_file, or "none"
    rpc               \* position in rename_file

tocVars == <<input, md_text, existing_anchors, headers, toc, anchors, names,
             hidx, result, pc>>
genVars == <<registry, calls>>
renVars == <<files, dry_run, verbose, file, fidx, fs, renamer_calls,
             os_renames, printed, raised, rpc>>
vars == <<tocVars, genVars, renVars>>

----------------------------------------------------------------------------
(* Bounds of the model *)

\* longest document, in lines
MaxLines == 3
\* most calls of _generate_anchor_name on one registry
MaxCalls == 4
\* longest collection handed to rename_file
MaxFiles == 3

----------------------------------------------------------------------------
(* Python str operations on character sequences *)

NL == "\n"

\* s[p:].startswith(pat), p counted from 1
StartsWithAt(s, p, pat) ==
    /\ p >= 1
    /\ p + Len(pat) - 1 <= Len(s)
    /\ \A k \in 1..Len(pat) : s[p + k - 1] = pat[k]

\* str.find(pat, from): the least position >= from where pat occurs, 0 if none
Find(s, pat, from) ==
    LET ps == {p \in from..(Len(s) - Len(pat) + 1) : StartsWithAt(s, p, pat)}
    IN  IF ps = {} THEN 0 ELSE CHOOSE p \in ps : \A q \in ps : p <= q

\* pat in s
Contains(s, pat) == Find(s, pat, 1) # 0

\* s.replace(old, new, 1): only the first occurrence is replaced
ReplaceFirst(s, old, new) ==
    LET p == Find(s, old, 1)
    IN  IF p = 0 THEN s
        ELSE SubSeq(s, 1, p - 1) \o new \o SubSeq(s, p + Len(old), Len(s))

\* sep.join(parts)
RECURSIVE Join(_, _)
Join(parts, sep) ==
    IF parts = <<>> THEN <<>>
    ELSE IF Len(parts) = 1 THEN parts[1]
    ELSE parts[1] \o sep \o Join(Tail(parts), sep)

\* the index of the last character of the line that starts at p
LineEnd(s, p) ==
    LET q == Find(s, <<NL>>, p) IN IF q = 0 THEN Len(s) ELSE q - 1

\* the length of the run of '#' that starts at p
RECURSIVE HashRun(_, _)
HashRun(s, p) ==
    IF p <= Len(s) /\ s[p] = "#" THEN 1 + HashRun(s, p + 1) ELSE 0

\* '#' * n
RECURSIVE Repeat(_, _)
Repeat(unit, n) == IF n <= 0 THEN <<>> ELSE unit \o Repeat(unit, n - 1)

----------------------------------------------------------------------------
(* Python values stored in the registry: int, or the bool True of line 121 *)

PyInt(n) == [t |-> "int", v |-> n]
PyTrue == [t |-> "bool", v |-> 1]

\* i + 1: bool is a subclass of int, and the sum is an int
PyAdd1(i) == PyInt(i.v + 1)

Digits == <<"0", "1", "2", "3", "4", "5", "6", "7", "8", "9">>

\* str(n) for an int n >= 0
RECURSIVE Decimal(_)
Decimal(n) ==
    IF n < 10 THEN <<Digits[n + 1]>>
    ELSE Decimal(n \div 10) \o <<Digits[(n % 10) + 1]>>

\* format(i, '') as an f-string does: True prints as its name, an int in decimal
PyFormat(i) ==
    IF i.t = "bool"
    THEN (IF i.v = 1 THEN <<"T", "r", "u", "e">> ELSE <<"F", "a", "l", "s", "e">>)
    ELSE Decimal(i.v)

\* d.get(k, 0)
DictGet0(d, k) == IF k \in DOMAIN d THEN d[k] ELSE PyInt(0)

\* d[k] = v
DictSet(d, k, v) == [x \in (DOMAIN d) \cup {k} |-> IF x = k THEN v ELSE d[x]]

\* {}
EmptyDict == <<>>

----------------------------------------------------------------------------
(* The regular expressions of the source *)

TagOpen == <<"<", "a", " ", "n", "a", "m", "e", "=", "\"">>
TagClose == <<"\"", ">", "<", "/", "a", ">">>

\* re.findall(r'<a name="(.+?)"></a>', s): the captured names, left to right,
\* matches not overlapping; '.' does not match a newline and '+?' is lazy
RECURSIVE FindAnchorNames(_, _)
FindAnchorNames(s, from) ==
    LET q == Find(s, TagOpen, from)
    IN  IF q = 0 THEN <<>>
        ELSE
          LET n  == q + Len(TagOpen)
              le == LineEnd(s, n)
              es == {e \in (n + 1)..le : StartsWithAt(s, e, TagClose)}
          IN  IF n > Len(s) \/ s[n] = NL \/ es = {}
              THEN FindAnchorNames(s, q + 1)
              ELSE LET e == CHOOSE x \in es : \A y \in es : x <= y
                   IN  <<SubSeq(s, n, e - 1)>>
                         \o FindAnchorNames(s, e + Len(TagClose))

\* Counter(list)
CounterOf(list) ==
    [k \in {list[i] : i \in 1..Len(list)} |->
        Cardinality({i \in 1..Len(list) : list[i] = k})]

\* whether r'(#+) (.+)' matches at p, a position where a run of '#' starts:
\* the run, one space, and at least one character other than a newline
HeaderAt(s, p) ==
    LET r == HashRun(s, p)
    IN  /\ r >= 1
        /\ p + r + 1 <= Len(s)
        /\ s[p + r] = " "
        /\ s[p + r + 1] # NL

\* re.findall(r'^(#+) (.+)$', s, re.MULTILINE) from the line that starts at p:
\* one (header_level, header_text) pair per matching line, in document order
RECURSIVE FindHeaders(_, _)
FindHeaders(s, p) ==
    IF p > Len(s) THEN <<>>
    ELSE
      LET e == LineEnd(s, p)
          r == HashRun(s, p)
          here == IF HeaderAt(s, p)
                  THEN << <<SubSeq(s, p, p + r - 1), SubSeq(s, p + r + 1, e)>> >>
                  ELSE <<>>
      IN  here \o FindHeaders(s, e + 2)

\* re.split(r'(#+ .+)', s, 1): <<before, match, after>> at the leftmost match
\* (anywhere in a line, the pattern is not anchored), <<s>> when there is none
ReSplitFirstHeader(s) ==
    LET ps == {p \in 1..Len(s) : HeaderAt(s, p)}
    IN  IF ps = {} THEN <<s>>
        ELSE LET p == CHOOSE x \in ps : \A y \in ps : x <= y
                 e == LineEnd(s, p)
             IN  <<SubSeq(s, 1, p - 1), SubSeq(s, p, e), SubSeq(s, e + 1, Len(s))>>

----------------------------------------------------------------------------
(* _header_to_anchor_base *)

Upper == <<"A", "B", "C", "D", "E", "F", "G", "H", "I", "J", "K", "L", "M",
           "N", "O", "P", "Q", "R", "S", "T", "U", "V", "W", "X", "Y", "Z">>
LowerOf == <<"a", "b", "c", "d", "e", "f", "g", "h", "i", "j", "k", "l", "m",
             "n", "o", "p", "q", "r", "s", "t", "u", "v", "w", "x", "y", "z">>

\* str.lower()
LowerChar(c) ==
    IF \E i \in 1..Len(Upper) : Upper[i] = c
    THEN LowerOf[CHOOSE i \in 1..Len(Upper) : Upper[i] = c]
    ELSE c
Lower(s) == [i \in 1..Len(s) |-> LowerChar(s[i])]

IsSpace(c) == c \in {" ", "\t", NL, "\r", "\f"}

\* str.strip()
Strip(s) ==
    LET ks == {i \in 1..Len(s) : ~IsSpace(s[i])}
    IN  IF ks = {} THEN <<>>
        ELSE SubSeq(s, CHOOSE i \in ks : \A j \in ks : i <= j,
                       CHOOSE i \in ks : \A j \in ks : i >= j)

\* re.sub(r'\s+', '-', s): every run of whitespace becomes one '-'
RECURSIVE SubSpaces(_)
SubSpaces(s) ==
    IF s = <<>> THEN <<>>
    ELSE IF IsSpace(s[1])
         THEN IF Len(s) >= 2 /\ IsSpace(s[2]) THEN SubSpaces(Tail(s))
              ELSE <<"-">> \o SubSpaces(Tail(s))
         ELSE <<s[1]>> \o SubSpaces(Tail(s))

Normalize(header) == SubSpaces(Strip(Lower(header)))

\* md5(normalized.encode()).hexdigest()[:8], tabulated for the normalized
\* header texts of the documents of the model
Md5Hex8(normalized) ==
    CASE normalized = <<"a">> ->
           <<"0", "c", "c", "1", "7", "5", "b", "9">>
      [] normalized = <<"b">> ->
           <<"9", "2", "e", "b", "5", "f", "f", "e">>
      [] normalized = <<"a", "-", "b">> ->
           <<"8", "c", "a", "2", "e", "d", "5", "9">>
      [] normalized = <<"a", "-", "<", "a", "-", "n", "a", "m", "e", "=", "\"",
                        "0", "c", "c", "1", "7", "5", "b", "9", "\"", ">", "<",
                        "/", "a", ">">> ->
           <<"d", "e", "b", "b", "a", "7", "6", "7">>

header_to_anchor_base(header) == Md5Hex8(Normalize(header))

----------------------------------------------------------------------------
(* _generate_anchor_name *)

\* a variant that numbers a repeated base from the incremented count
generate_anchor_name_from_next_count(header, existing) ==
    LET anchor_base == header_to_anchor_base(header)
        i == DictGet0(existing, anchor_base)
    IN  IF i.v > 0 THEN anchor_base \o <<"-">> \o PyFormat(PyAdd1(i))
        ELSE anchor_base

\* the anchor name returned for header under the registry existing
generate_anchor_name(header, existing) ==
    LET anchor_base == header_to_anchor_base(header)
        i == DictGet0(existing, anchor_base)
    IN  IF i.v > 0 THEN anchor_base \o <<"-">> \o PyFormat(i) ELSE anchor_base

\* a variant that never stores the incremented count
generate_anchor_registry_not_stored(header, existing) == existing

\* the registry as the call leaves it
generate_anchor_registry(header, existing) ==
    LET anchor_base == header_to_anchor_base(header)
        i == DictGet0(existing, anchor_base)
    IN  DictSet(existing, anchor_base, PyAdd1(i))

----------------------------------------------------------------------------
(* add_toc_to_markdown *)

TocTitle == <<"#", " ", "T", "a", "b", "l", "e", " ", "o", "f", " ",
              "c", "o", "n", "t", "e", "n", "t", "s">>

\* f'<a name="{anchor_name}"></a>'
AnchorTag(anchor_name) == TagOpen \o anchor_name \o TagClose

\* a variant that indents by the level itself
TocLine_indent_by_level(level, header_text, anchor_name) ==
    Repeat(<<" ", " ", " ", " ">>, level)
      \o <<"-", " ", "[">> \o header_text \o <<"]", "(", "#">>
      \o anchor_name \o <<")">>

\* f"{'    ' * (level - 1)}- [{header_text}](#{anchor_name})"
TocLine(level, header_text, anchor_name) ==
    Repeat(<<" ", " ", " ", " ">>, level - 1)
      \o <<"-", " ", "[">> \o header_text \o <<"]", "(", "#">>
      \o anchor_name \o <<")">>

\* a variant that inserts the tag without looking for it in the text
PatchHeader_unconditional(md, header_level, header_text, anchor_name) ==
    LET marked == header_level \o <<" ">> \o header_text
    IN  ReplaceFirst(md, marked, marked \o <<" ">> \o AnchorTag(anchor_name))

\* lines 112-118: the anchor tag goes after the first occurrence of the
\* header's marker-and-text, unless the tag is already somewhere in the text
PatchHeader(md, header_level, header_text, anchor_name) ==
    LET anchor_tag == AnchorTag(anchor_name)
        marked     == header_level \o <<" ">> \o header_text
    IN  IF ~Contains(md, anchor_tag)
        THEN ReplaceFirst(md, marked, marked \o <<" ">> \o anchor_tag)
        ELSE md

\* line 121: anchors[anchor_name] = True
TrackAnchor(reg, anchor_name) == DictSet(reg, anchor_name, PyTrue)

\* a variant that writes the TOC before the whole text
SpliceToc_at_start(md, toclines) ==
    Join(toclines, <<NL>>) \o <<NL, NL>> \o md

\* lines 124-126: the TOC goes between split_md_text[0] and the rest
SpliceToc(md, toclines) ==
    LET toc_str == Join(toclines, <<NL>>) \o <<NL, NL>>
        split_md_text == ReSplitFirstHeader(md)
    IN  split_md_text[1] \o toc_str \o Join(Tail(split_md_text), <<>>)

\* the lines the documents of the model are made of
DocLines ==
    { <<"#", " ", "a">>,
      <<"#", "#", " ", "a">>,
      <<"#", " ", "A">>,
      <<"#", " ", "b">>,
      <<"b">>,
      <<"x", " ", "#", " ", "b">>,
      <<>>,
      <<"<", "a", " ", "n", "a", "m", "e", "=", "\"", "0", "c", "c", "1", "7",
        "5", "b", "9", "\"", ">", "<", "/", "a", ">">>,
      <<"#", " ", "a", " ", "<", "a", " ", "n", "a", "m", "e", "=", "\"", "0",
        "c", "c", "1", "7", "5", "b", "9", "\"", ">", "<", "/", "a", ">">> }

\* the documents: at most MaxLines lines, joined by newlines
Docs ==
    {Join(ls, <<NL>>) :
        ls \in UNION {[1..n -> DocLines] : n \in 0..MaxLines}}

TocInit ==
    /\ input \in Docs
    /\ md_text = input
    /\ existing_anchors = EmptyDict
    /\ headers = <<>>
    /\ toc = <<>>
    /\ anchors = EmptyDict
    /\ names = <<>>
    /\ hidx = 0
    /\ result = <<>>
    /\ pc = "start"

\* lines 95-103
FindAnchorsAndHeaders ==
    /\ pc = "start"
    /\ existing_anchors' = CounterOf(FindAnchorNames(md_text, 1))
    /\ headers' = FindHeaders(md_text, 1)
    /\ toc' = <<TocTitle>>
    /\ anchors' = EmptyDict
    /\ pc' = "loop"
    /\ UNCHANGED <<input, md_text, names, hidx, result>>
    /\ UNCHANGED <<genVars, renVars>>

\* lines 104-121: one iteration of the loop over the headers
ProcessHeader ==
    /\ pc = "loop"
    /\ hidx < Len(headers)
    /\ LET header_level == headers[hidx + 1][1]
           header_text  == headers[hidx + 1][2]
           level        == Len(header_level)
           anchor_name  == generate_anchor_name(header_text, anchors)
           anchors1     == generate_anchor_registry(header_text, anchors)
       IN  /\ toc' = Append(toc, TocLine(level, header_text, anchor_name))
           /\ md_text' = PatchHeader(md_text, header_level, header_text,
                                     anchor_name)
           /\ anchors' = TrackAnchor(anchors1, anchor_name)
           /\ names' = Append(names, anchor_name)
    /\ hidx' = hidx + 1
    /\ UNCHANGED <<input, existing_anchors, headers, result, pc>>
    /\ UNCHANGED <<genVars, renVars>>

\* lines 123-128
InsertToc ==
    /\ pc = "loop"
    /\ hidx = Len(headers)
    /\ result' = SpliceToc(md_text, toc)
    /\ pc' = "done"
    /\ UNCHANGED <<input, md_text, existing_anchors, headers, toc, anchors,
                   names, hidx>>
    /\ UNCHANGED <<genVars, renVars>>

----------------------------------------------------------------------------
(* _generate_anchor_name called on a registry of its own *)

\* the header texts handed to _generate_anchor_name
HeaderTexts ==
    { <<"a">>, <<"A">>, <<"b">>, <<"a", " ", " ", "B">> }

GenInit ==
    /\ registry = EmptyDict
    /\ calls = <<>>

\* lines 64-81: one call; existing_anchors is mutated in place
GenerateAnchorName ==
    /\ Len(calls) < MaxCalls
    /\ \E header \in HeaderTexts :
         /\ registry' = generate_anchor_registry(header, registry)
         /\ calls' = Append(calls,
                            <<header, generate_anchor_name(header, registry)>>)
    /\ UNCHANGED <<tocVars, renVars>>

----------------------------------------------------------------------------
(* renamer_function and rename_file *)

\* the position of the last occurrence of character c in s, 0 if none
LastIndexOf(s, c) ==
    LET ks == {i \in 1..Len(s) : s[i] = c}
    IN  IF ks = {} THEN 0 ELSE CHOOSE i \in ks : \A j \in ks : i >= j

\* os.path.split(filepath): <<folder, filename>>
PathSplit(filepath) ==
    LET k == LastIndexOf(filepath, "/")
    IN  <<SubSeq(filepath, 1, k - 1), SubSeq(filepath, k + 1, Len(filepath))>>

\* os.path.splitext(filename): <<name, ext>>; a leading dot starts no extension
SplitExt(filename) ==
    LET k == LastIndexOf(filename, ".")
    IN  IF k <= 1 THEN <<filename, <<>>>>
        ELSE <<SubSeq(filename, 1, k - 1), SubSeq(filename, k, Len(filename))>>

\* os.path.join(folder, new_filename)
PathJoin(folder, new_filename) ==
    IF folder = <<>> THEN new_filename ELSE folder \o <<"/">> \o new_filename

\* lines 37-47, given the title that load_json(filepath)['title'] yields
renamer_function(filepath, title) ==
    LET folder   == PathSplit(filepath)[1]
        filename == PathSplit(filepath)[2]
        name     == SplitExt(filename)[1]
        ext      == SplitExt(filename)[2]
    IN  PathJoin(folder, name \o <<" ", "-", "-", " ">> \o title \o ext)

\* the file paths of the model
Paths ==
    { <<"a", ".", "j">>, <<"d", "/", "b", ".", "j">>, <<"c">> }

\* the title stored in each file when rename_file starts
TitleOf(path) ==
    IF path = <<"c">> THEN <<"u">> ELSE <<"t">>

\* the value of the local variable `file`: a str, or the collection itself
StrVal(path) == [isstr |-> TRUE, val |-> path]
ListVal == [isstr |-> FALSE, val |-> <<>>]

RenameInit ==
    /\ files \in UNION {[1..n -> Paths] : n \in 0..MaxFiles}
    /\ dry_run \in BOOLEAN
    /\ verbose \in BOOLEAN
    /\ file = ListVal
    /\ fidx = 0
    /\ fs = [p \in Paths |-> TitleOf(p)]
    /\ renamer_calls = <<>>
    /\ os_renames = <<>>
    /\ printed = <<>>
    /\ raised = "none"
    /\ rpc = "call"

\* os.rename(src, dst) on the file system
OsRename(fsys, src, dst) ==
    [p \in ((DOMAIN fsys) \ {src}) \cup {dst} |->
        IF p = dst THEN fsys[src] ELSE fsys[p]]

\* lines 30-34 executed with the local `file` holding f; goes to position
\* next unless an exception ends the call
RenameBody(f, next) ==
    /\ renamer_calls' = Append(renamer_calls, f)
    /\ IF ~f.isstr
       THEN \* load_json: Path(a list) raises TypeError
            /\ raised' = "TypeError"
            /\ rpc' = "raised"
            /\ UNCHANGED <<fs, os_renames, printed>>
       ELSE IF f.val \notin DOMAIN fs
       THEN \* load_json: read_text of a missing file
            /\ raised' = "FileNotFoundError"
            /\ rpc' = "raised"
            /\ UNCHANGED <<fs, os_renames, printed>>
       ELSE LET new_name == renamer_function(f.val, fs[f.val])
            IN  /\ printed' = IF verbose
                              THEN Append(printed, <<f.val, new_name>>)
                              ELSE printed
                /\ IF ~dry_run
                   THEN /\ os_renames' = Append(os_renames, <<f.val, new_name>>)
                        /\ fs' = OsRename(fs, f.val, new_name)
                   ELSE UNCHANGED <<fs, os_renames>>
                /\ raised' = "none"
                /\ rpc' = next

\* lines 25-26: the argument is not a str
EnterLoop ==
    /\ rpc = "call"
    /\ rpc' = "loop"
    /\ UNCHANGED <<files, dry_run, verbose, file, fidx, fs, renamer_calls,
                   os_renames, printed, raised>>
    /\ UNCHANGED <<tocVars, genVars>>

\* lines 27-28: the loop binds `file` to the next element and calls
\* rename_file on it; the element is a str, so that call runs lines 30-34
LoopStep ==
    /\ rpc = "loop"
    /\ fidx < Len(files)
    /\ file' = StrVal(files[fidx + 1])
    /\ fidx' = fidx + 1
    /\ RenameBody(StrVal(files[fidx + 1]), "loop")
    /\ UNCHANGED <<files, dry_run, verbose>>
    /\ UNCHANGED <<tocVars, genVars>>

\* lines 30-34 of the outer call, reached when the loop is exhausted: there
\* is no return after the loop, and `file` is what the loop left in it
AfterLoop ==
    /\ rpc = "loop"
    /\ fidx = Len(files)
    /\ RenameBody(file, "done")
    /\ UNCHANGED <<files, dry_run, verbose, file, fidx>>
    /\ UNCHANGED <<tocVars, genVars>>

----------------------------------------------------------------------------
(* Specifications *)

TocIdle ==
    /\ input = <<>>
    /\ md_text = <<>>
    /\ existing_anchors = EmptyDict
    /\ headers = <<>>
    /\ toc = <<>>
    /\ anchors = EmptyDict
    /\ names = <<>>
    /\ hidx = 0
    /\ result = <<>>
    /\ pc = "idle"

RenameIdle ==
    /\ files = <<>>
    /\ dry_run = TRUE
    /\ verbose = TRUE
    /\ file = ListVal
    /\ fidx = 0
    /\ fs = [p \in Paths |-> TitleOf(p)]
    /\ renamer_calls = <<>>
    /\ os_renames = <<>>
    /\ printed = <<>>
    /\ raised = "none"
    /\ rpc = "idle"

\* add_toc_to_markdown on each document of Docs
Init == TocInit /\ GenInit /\ RenameIdle
Next == FindAnchorsAndHeaders \/ ProcessHeader \/ InsertToc
Spec == Init /\ [][Next]_vars

\* _generate_anchor_name called repeatedly on one registry
GenSpecInit == TocIdle /\ GenInit /\ RenameIdle
GenNext == GenerateAnchorName
GenSpec == GenSpecInit /\ [][GenNext]_vars

\* rename_file on each collection of Paths
RenameSpecInit == TocIdle /\ GenInit /\ RenameInit
RenameNext == EnterLoop \/ LoopStep \/ AfterLoop
RenameSpec == RenameSpecInit /\ [][RenameNext]_vars

----------------------------------------------------------------------------
(* Vocabulary of the properties *)

\* the anchor base of the i-th header of the document
BaseOfHeader(i) == header_to_anchor_base(headers[i][2])

\* how many headers before the i-th share its anchor base
EarlierSameBase(i) ==
    Cardinality({j \in 1..(i - 1) : BaseOfHeader(j) = BaseOfHeader(i)})

\* the number of places where pat occurs in s
Occurrences(s, pat) ==
    Cardinality({p \in 1..Len(s) : StartsWithAt(s, p, pat)})

\* the anchor names that occur in s inside an anchor tag
TagNames(s) ==
    LET found == FindAnchorNames(s, 1)
    IN  {found[i] : i \in 1..Len(found)}

\* no anchor tag occurs twice in s
EachTagAtMostOnce(s) ==
    \A n \in TagNames(s) : Occurrences(s, AnchorTag(n)) <= 1

\* the TOC block as it is written into the output
TocBlock == Join(toc, <<NL>>) \o <<NL, NL>>

\* the lines of s
RECURSIVE LinesOf(_)
LinesOf(s) ==
    LET q == Find(s, <<NL>>, 1)
    IN  IF q = 0 THEN <<s>>
        ELSE <<SubSeq(s, 1, q - 1)>> \o LinesOf(SubSeq(s, q + 1, Len(s)))

\* the number of '#' a header line l starts with, 0 if l is no header line:
\* one or more '#' at the line start, a space, then text
LevelOfLine(l) ==
    LET ks == {k \in 1..Len(l) :
                  /\ \A j \in 1..k : l[j] = "#"
                  /\ k + 2 <= Len(l)
                  /\ l[k + 1] = " "}
    IN  IF ks = {} THEN 0 ELSE CHOOSE k \in ks : TRUE

\* the header lines of s, in document order
HeaderLinesOf(s) == SelectSeq(LinesOf(s), LAMBDA l : LevelOfLine(l) > 0)

\* n spaces
Spaces(n) == [j \in 1..n |-> " "]

\* a run of '#' followed by a space and a further character of the same line
\* starts at p
HashRunWithText(s, p) ==
    \E r \in 1..Len(s) :
        /\ \A j \in p..(p + r - 1) : j <= Len(s) /\ s[j] = "#"
        /\ p + r + 1 <= Len(s)
        /\ s[p + r] = " "
        /\ s[p + r + 1] # NL

----------------------------------------------------------------------------
(* Properties of add_toc_to_markdown *)

\* C1: among the headers that share an anchor base, taken in document order,
\* the first is named by the bare base and the one preceded by n >= 1 such
\* headers is named base-n with n written in decimal (base-1, base-2, ...).
C1_SuffixCountsFromOne ==
    \A i \in 1..Len(names) :
        names[i] = IF EarlierSameBase(i) = 0
                   THEN BaseOfHeader(i)
                   ELSE BaseOfHeader(i) \o <<"-">> \o Decimal(EarlierSameBase(i))

\* C2: when the document has a header, the output holds the first header
\* line, then the TOC block, then everything that followed that header line
\* in the patched document.
C2_TocAfterFirstHeaderLine ==
    (pc = "done" /\ headers # <<>>) =>
        \E e \in 1..Len(md_text) :
            /\ e = Len(md_text) \/ md_text[e + 1] = NL
            /\ LevelOfLine(LinesOf(SubSeq(md_text, 1, e))
                             [Len(LinesOf(SubSeq(md_text, 1, e)))]) > 0
            /\ Len(HeaderLinesOf(SubSeq(md_text, 1, e))) = 1
            /\ \E k \in (e + 1)..(Len(result) + 1) :
                 /\ SubSeq(result, 1, e) = SubSeq(md_text, 1, e)
                 /\ StartsWithAt(result, k, Join(toc, <<NL>>))
                 /\ SubSeq(result, Len(result) - (Len(md_text) - e) + 1,
                           Len(result))
                      = SubSeq(md_text, e + 1, Len(md_text))
                 /\ k + Len(Join(toc, <<NL>>))
                      <= Len(result) - (Len(md_text) - e) + 1

\* C3: for a document without anchor tags, the output holds one anchor tag
\* per header, and the line of the i-th header is its marker and text, a
\* space, and the tag of the anchor name given to that header.
C3_TagOnEachHeaderLine ==
    (pc = "done" /\ TagNames(input) = {}) =>
        /\ Len(FindAnchorNames(result, 1)) = Len(headers)
        /\ Len(HeaderLinesOf(md_text)) = Len(headers)
        /\ \A i \in 1..Len(headers) :
             HeaderLinesOf(md_text)[i]
               = headers[i][1] \o <<" ">> \o headers[i][2] \o <<" ">>
                   \o AnchorTag(names[i])

\* C4: the anchor names given to the headers of one run are pairwise
\* distinct, whatever the header texts.
C4_AnchorNamesDistinct ==
    \A i \in 1..Len(names) : \A j \in 1..Len(names) :
        i # j => names[i] # names[j]

\* C4 witness: a finished run over three headers of one anchor base, two of
\* them with the same text and one with another text of that base.
C4_Witness ==
    /\ pc = "done"
    /\ Len(names) >= 3
    /\ \E i \in 1..Len(headers) : \E j \in 1..Len(headers) :
       \E k \in 1..Len(headers) :
         /\ i < j /\ j # k /\ i # k
         /\ headers[i][2] = headers[j][2]
         /\ headers[k][2] # headers[i][2]
         /\ BaseOfHeader(i) = BaseOfHeader(j)
         /\ BaseOfHeader(i) = BaseOfHeader(k)

\* C5: once the input is scanned, every anchor name found in it is in the
\* registry used for the headers with a count of at least 1, and no header
\* is given a pre-existing anchor name.
C5_RegistrySeededFromInput ==
    pc # "start" =>
        /\ \A a \in TagNames(input) : a \in DOMAIN anchors /\ anchors[a].v >= 1
        /\ \A i \in 1..Len(names) : names[i] \notin TagNames(input)

\* C6: for a document without anchor tags the TOC holds the title line and
\* then one entry per header line, in document order: 4 * (level - 1) spaces,
\* then '- [text](#anchor_name)' with the text of that header line.
C6_TocEntryPerHeader ==
    (pc = "done" /\ TagNames(input) = {}) =>
        LET hl == HeaderLinesOf(input)
        IN  /\ Len(toc) = Len(hl) + 1
            /\ toc[1] = TocTitle
            /\ Contains(result, TocBlock)
            /\ \A i \in 1..Len(hl) :
                 LET level == LevelOfLine(hl[i])
                     text  == SubSeq(hl[i], level + 2, Len(hl[i]))
                 IN  toc[i + 1]
                       = Spaces(4 * (level - 1)) \o <<"-", " ", "[">> \o text
                           \o <<"]", "(", "#">> \o names[i] \o <<")">>

\* C6 witness: a finished run over a document without anchor tags that has
\* a header of level 1 and a header of level 2.
C6_Witness ==
    /\ pc = "done"
    /\ TagNames(input) = {}
    /\ \E i \in 1..Len(headers) : Len(headers[i][1]) = 1
    /\ \E i \in 1..Len(headers) : Len(headers[i][1]) = 2

\* C7: for a document without headers the TOC is the title line alone, the
\* text is not changed, and the output is the TOC block followed by the text.
C7_TocBeforeTextWithoutHeaders ==
    (pc = "done" /\ HeaderLinesOf(input) = <<>>) =>
        /\ toc = <<TocTitle>>
        /\ md_text = input
        /\ result = TocTitle \o <<NL, NL>> \o input

\* C7 as amended: for a document without headers the TOC is the title line
\* alone, the text is not changed, and the TOC block is written right before
\* the first '#' run that a space and a further character follow inside a
\* line, and after the whole text when there is no such run.
C7_TocAfterTextWithoutHeaders ==
    (pc = "done" /\ HeaderLinesOf(input) = <<>>) =>
        /\ toc = <<TocTitle>>
        /\ md_text = input
        /\ \E p \in 1..(Len(input) + 1) :
             /\ \A q \in 1..(p - 1) : ~HashRunWithText(input, q)
             /\ p <= Len(input) => HashRunWithText(input, p)
             /\ result = SubSeq(input, 1, p - 1) \o TocTitle \o <<NL, NL>>
                           \o SubSeq(input, p, Len(input))

\* C7 witness: a finished run over a non-empty document without headers and
\* without any '#': the TOC block ends the output.
C7_Witness ==
    /\ pc = "done"
    /\ HeaderLinesOf(input) = <<>>
    /\ input # <<>>
    /\ ~Contains(input, <<"#">>)
    /\ result = input \o TocTitle \o <<NL, NL>>

\* C8: when no anchor tag occurs twice in the input, no anchor tag occurs
\* twice in the output, and a header whose anchor name is the name of a
\* pre-existing anchor has its TOC entry while its tag still occurs once.
C8_TagsOnceInOutput ==
    (pc = "done" /\ EachTagAtMostOnce(input)) =>
        /\ EachTagAtMostOnce(result)
        /\ \A i \in 1..Len(names) :
             names[i] \in TagNames(input) =>
               /\ Contains(toc[i + 1], <<"(", "#">> \o names[i] \o <<")">>)
               /\ Occurrences(result, AnchorTag(names[i])) = 1

\* C8 as amended: when no anchor tag occurs twice in the input, no anchor tag
\* occurs twice in the patched document at any point of the run, the output
\* is the patched document with the TOC block spliced in, and a header whose
\* anchor name is the name of a pre-existing anchor has its TOC entry while
\* its tag still occurs once in the patched document.
C8_TagsOnceInPatchedDocument ==
    EachTagAtMostOnce(input) =>
        /\ EachTagAtMostOnce(md_text)
        /\ \A i \in 1..Len(names) :
             names[i] \in TagNames(input) =>
               /\ Contains(toc[i + 1], <<"(", "#">> \o names[i] \o <<")">>)
               /\ Occurrences(md_text, AnchorTag(names[i])) = 1
        /\ pc = "done" =>
             \E p \in 0..Len(md_text) :
                 result = SubSeq(md_text, 1, p) \o TocBlock
                            \o SubSeq(md_text, p + 1, Len(md_text))

\* C8 witness: a finished run over a document whose tags occur once each,
\* with a header whose anchor name is the name of a pre-existing anchor.
C8_Witness ==
    /\ pc = "done"
    /\ EachTagAtMostOnce(input)
    /\ \E i \in 1..Len(names) : names[i] \in TagNames(input)

----------------------------------------------------------------------------
(* Properties of _generate_anchor_name *)

\* how many of the first k calls were made for the anchor base b
CallsFor(b, k) ==
    Cardinality({j \in 1..k : header_to_anchor_base(calls[j][1]) = b})

\* C9: on a registry that only _generate_anchor_name changes, the call that
\* n earlier calls for the same base precede returns the base when n = 0 and
\* base-n otherwise, and the registry holds, for exactly the bases called,
\* the number of calls made for each.
C9_NamesAndCountsFollowCalls ==
    /\ \A k \in 1..Len(calls) :
         LET b == header_to_anchor_base(calls[k][1])
             n == CallsFor(b, k - 1)
         IN  calls[k][2] = IF n = 0 THEN b
                           ELSE b \o <<"-", Digits[n + 1]>>
    /\ DOMAIN registry
         = {header_to_anchor_base(calls[k][1]) : k \in 1..Len(calls)}
    /\ \A b \in DOMAIN registry :
         registry[b] = PyInt(CallsFor(b, Len(calls)))

\* C9 witness: the third call for one base, made after a call for another.
C9_Witness ==
    /\ Len(calls) >= 4
    /\ \E b \in DOMAIN registry : \E c \in DOMAIN registry :
         /\ b # c
         /\ CallsFor(b, Len(calls)) = 3
         /\ header_to_anchor_base(calls[Len(calls)][1]) = b

----------------------------------------------------------------------------
(* Properties of rename_file *)

\* the paths of the collection are pairwise distinct
DistinctFiles ==
    \A i \in 1..Len(files) : \A j \in 1..Len(files) :
        i # j => files[i] # files[j]

\* C10: once rename_file has ended on a collection of distinct paths, no
\* exception was raised, renamer_function was called once on each path of
\* the collection, in order, and on nothing else, and os.rename was called
\* once on each path, in order, unless dry_run, and never under dry_run.
C10_EachFileRenamedOnce ==
    (rpc \in {"done", "raised"} /\ DistinctFiles) =>
        /\ raised = "none"
        /\ renamer_calls = [i \in 1..Len(files) |-> StrVal(files[i])]
        /\ dry_run => os_renames = <<>>
        /\ ~dry_run =>
             /\ Len(os_renames) = Len(files)
             /\ \A i \in 1..Len(files) : os_renames[i][1] = files[i]

====
